---- MODULE Spec2Model ----
(***************************************************************************)
(* Can-Am Specialist API (src/app/main.py): the deterministic /answer      *)
(* router, its entity extraction (_pick_model, _pick_year) and the stub    *)
(* catalog endpoints it calls.                                             *)
(*                                                                         *)
(* A Python str is a sequence of one-character strings, so that substring  *)
(* tests ("k in lo"), str.lower(), str.strip() and the regular expressions *)
(* with \b word boundaries are computed character by character.            *)
(***************************************************************************)
EXTENDS Integers, Sequences, FiniteSets, TLC

VARIABLES question, pc, status, lo, model, year, intent, calls, response,
          endpoint, lst, firstSeen, served

vars == <<question, pc, status, lo, model, year, intent, calls, response,
          endpoint, lst, firstSeen, served>>

(***************************************************************************)
(* Bounds of the model.                                                    *)
(***************************************************************************)
\* number of words of a /answer question (Spec)
MaxWords == 4
\* number of words of a text given to _pick_model / _pick_year (SpecExtract)
MaxTokens == 3
\* number of requests one process serves (SpecSession)
MaxRequests == 3

(***************************************************************************)
(* Characters.                                                             *)
(***************************************************************************)
UpperSeq == <<"A", "B", "C", "D", "E", "F", "G", "H", "I", "J", "K", "L", "M", "N", "O", "P", "Q", "R", "S", "T", "U", "V", "W", "X", "Y", "Z">>
LowerSeq == <<"a", "b", "c", "d", "e", "f", "g", "h", "i", "j", "k", "l", "m", "n", "o", "p", "q", "r", "s", "t", "u", "v", "w", "x", "y", "z">>

DigitSeq == <<"0", "1", "2", "3", "4", "5", "6", "7", "8", "9">>

Range(s) == {s[i] : i \in 1..Len(s)}

Digits == Range(DigitSeq)

UpperChars == Range(UpperSeq)

\* \w of the re module, on ASCII text
WordChars == UpperChars \cup Range(LowerSeq) \cup Digits \cup {"_"}

\* the characters str.strip() removes and \s matches
Whitespace == {" ", "\t", "\n", "\r"}

\* the lower-case letter of each upper-case letter
LowerOf == [c \in UpperChars |-> LowerSeq[CHOOSE i \in 1..Len(UpperSeq) : UpperSeq[i] = c]]

\* str.lower() on one character
LowerChar(c) == IF c \in UpperChars THEN LowerOf[c] ELSE c

\* str.lower()
RECURSIVE Lower(_)
Lower(s) == IF s = <<>> THEN <<>> ELSE <<LowerChar(Head(s))>> \o Lower(Tail(s))

\* str.lstrip()
RECURSIVE LStrip(_)
LStrip(s) == IF s # <<>> /\ Head(s) \in Whitespace THEN LStrip(Tail(s)) ELSE s

\* str.rstrip()
RECURSIVE RStrip(_)
RStrip(s) ==
  IF s # <<>> /\ s[Len(s)] \in Whitespace THEN RStrip(SubSeq(s, 1, Len(s) - 1)) ELSE s

\* a handler that tests the question without stripping it
Strip_omitted(s) == s

\* str.strip()
Strip(s) == RStrip(LStrip(s))

\* the pattern p occurs in t starting at index i
MatchAt(p, t, i) ==
  /\ i >= 1
  /\ i + Len(p) - 1 <= Len(t)
  /\ Len(p) = 0 \/ (t[i] = p[1] /\ SubSeq(t, i, i + Len(p) - 1) = p)

\* Python's "p in t" on strings
In(p, t) == \E i \in 1..(Len(t) - Len(p) + 1) : MatchAt(p, t, i)

\* any(k in t for k in ks)
AnyIn(ks, t) == \E k \in ks : In(k, t)

IsWordAt(t, i) == i >= 1 /\ i <= Len(t) /\ t[i] \in WordChars

\* the regex assertion \b between t[i-1] and t[i]
Boundary(t, i) == IsWordAt(t, i - 1) # IsWordAt(t, i)

\* the search without the \b guards
SearchWord_unguarded(p, t) == In(p, t)

\* re.search(r"\bp\b", t) for a literal p
SearchWord(p, t) ==
  \E i \in 1..(Len(t) - Len(p) + 1) :
    /\ Boundary(t, i)
    /\ MatchAt(p, t, i)
    /\ Boundary(t, i + Len(p))

\* int() of a string of decimal digits
RECURSIVE ToInt(_)
ToInt(s) ==
  IF s = <<>> THEN 0
  ELSE ToInt(SubSeq(s, 1, Len(s) - 1)) * 10
         + ((CHOOSE d \in 1..10 : DigitSeq[d] = s[Len(s)]) - 1)

Min(S) == CHOOSE x \in S : \A y \in S : x <= y
Max(S) == CHOOSE x \in S : \A y \in S : y <= x

(* The string literals of main.py. *)
k_spec == <<"s", "p", "e", "c">>
k_specs == <<"s", "p", "e", "c", "s">>
k_specifications == <<"s", "p", "e", "c", "i", "f", "i", "c", "a", "t", "i", "o", "n", "s">>
k_spec_sheet == <<"s", "p", "e", "c", " ", "s", "h", "e", "e", "t">>
k_oil == <<"o", "i", "l">>
k_fluid == <<"f", "l", "u", "i", "d">>
k_fluids == <<"f", "l", "u", "i", "d", "s">>
k_torque == <<"t", "o", "r", "q", "u", "e">>
k_capacity == <<"c", "a", "p", "a", "c", "i", "t", "y">>
k_brake == <<"b", "r", "a", "k", "e">>
k_trans == <<"t", "r", "a", "n", "s">>
k_transmission == <<"t", "r", "a", "n", "s", "m", "i", "s", "s", "i", "o", "n">>
k_tire == <<"t", "i", "r", "e">>
k_rear == <<"r", "e", "a", "r">>
k_service == <<"s", "e", "r", "v", "i", "c", "e">>
k_maint == <<"m", "a", "i", "n", "t">>
k_maintenance == <<"m", "a", "i", "n", "t", "e", "n", "a", "n", "c", "e">>
k_interval == <<"i", "n", "t", "e", "r", "v", "a", "l">>
k_dealer == <<"d", "e", "a", "l", "e", "r">>
k_dealership == <<"d", "e", "a", "l", "e", "r", "s", "h", "i", "p">>
k_part == <<"p", "a", "r", "t">>
k_parts == <<"p", "a", "r", "t", "s">>
k_diagram == <<"d", "i", "a", "g", "r", "a", "m">>
k_drive == <<"d", "r", "i", "v", "e">>
k_accessor == <<"a", "c", "c", "e", "s", "s", "o", "r">>
k_bundle == <<"b", "u", "n", "d", "l", "e">>
k_tour == <<"t", "o", "u", "r">>
k_commute == <<"c", "o", "m", "m", "u", "t", "e">>
k_performance == <<"p", "e", "r", "f", "o", "r", "m", "a", "n", "c", "e">>
k_two == <<"t", "w", "o">>
k_winter == <<"w", "i", "n", "t", "e", "r">>
k_new == <<"n", "e", "w">>
k_expert == <<"e", "x", "p", "e", "r", "t">>
k_two_up == <<"t", "w", "o", "-", "u", "p">>
k_highway == <<"h", "i", "g", "h", "w", "a", "y">>
k_distance == <<"d", "i", "s", "t", "a", "n", "c", "e">>
k_city == <<"c", "i", "t", "y">>
k_comfort == <<"c", "o", "m", "f", "o", "r", "t">>
k_spyder_f3 == <<"s", "p", "y", "d", "e", "r", " ", "f", "3">>
k_f3 == <<"f", "3">>
k_spyder_rt == <<"s", "p", "y", "d", "e", "r", " ", "r", "t">>
k_rt == <<"r", "t">>
k_ryker == <<"r", "y", "k", "e", "r">>
k_canyon == <<"c", "a", "n", "y", "o", "n">>
k_mi == <<"m", "i">>
k_miles == <<"m", "i", "l", "e", "s">>

\* the model names _pick_model returns
SpyderF3T == <<"S", "p", "y", "d", "e", "r", " ", "F", "3", " ", "T">>
SpyderRT == <<"S", "p", "y", "d", "e", "r", " ", "R", "T">>
Ryker == <<"R", "y", "k", "e", "r">>
Canyon == <<"C", "a", "n", "y", "o", "n">>
\* Optional[str] None
None == <<>>

\* words of the questions the model asks
w_Ryker == <<"R", "y", "k", "e", "r">>
w_90210 == <<"9", "0", "2", "1", "0">>
w_2023 == <<"2", "0", "2", "3">>
w_Spyder == <<"S", "p", "y", "d", "e", "r">>
w_20231 == <<"2", "0", "2", "3", "1">>
w_1999 == <<"1", "9", "9", "9">>
w_2021 == <<"2", "0", "2", "1">>
w_v2023 == <<"v", "2", "0", "2", "3">>
w_F3 == <<"F", "3">>
w_33139 == <<"3", "3", "1", "3", "9">>

(***************************************************************************)
(* Entity extraction.                                                      *)
(***************************************************************************)
\* the year regex without its trailing \b
YearAt_open_ended(t, i) ==
  /\ i >= 1
  /\ i + 3 <= Len(t)
  /\ t[i] = "2"
  /\ t[i + 1] = "0"
  /\ t[i + 2] \in Digits
  /\ t[i + 3] \in Digits
  /\ Boundary(t, i)

\* the regex \b(20\d{2})\b matches at index i of t
YearAt(t, i) ==
  /\ i >= 1
  /\ i + 3 <= Len(t)
  /\ t[i] = "2"
  /\ t[i + 1] = "0"
  /\ t[i + 2] \in Digits
  /\ t[i + 3] \in Digits
  /\ Boundary(t, i)
  /\ Boundary(t, i + 4)

\* _pick_year(text, default=2024): re.search returns the leftmost match
_pick_year(text) ==
  LET hits == {i \in 1..Len(text) : YearAt(text, i)}
  IN  IF hits # {} THEN ToInt(SubSeq(text, Min(hits), Min(hits) + 3)) ELSE 2024

\* _pick_model(text)
_pick_model(text) ==
  LET t == Lower(text)
  IN  IF In(k_spyder_f3, t) \/ SearchWord(k_f3, t) THEN SpyderF3T
      ELSE IF In(k_spyder_rt, t) \/ SearchWord(k_rt, t) THEN SpyderRT
      ELSE IF In(k_ryker, t) THEN Ryker
      ELSE IF In(k_canyon, t) THEN Canyon
      ELSE None

\* the regex \b\d{5}\b matches at index i of t
ZipAt(t, i) ==
  /\ i >= 1
  /\ i + 4 <= Len(t)
  /\ \A j \in i..(i + 4) : t[j] \in Digits
  /\ Boundary(t, i)
  /\ Boundary(t, i + 5)

\* zm = re.search(r"\b\d{5}\b", lo): <<>> for no match, else <<zm.group(0)>>
ZipSearch(t) ==
  LET hits == {i \in 1..Len(t) : ZipAt(t, i)}
  IN  IF hits = {} THEN <<>> ELSE <<SubSeq(t, Min(hits), Min(hits) + 4)>>

\* the regex (\d{3,6})\s*(mi|miles) matches at index i with n digits in group 1
MilesAt(t, i, n) ==
  /\ i >= 1
  /\ i + n - 1 <= Len(t)
  /\ \A j \in i..(i + n - 1) : t[j] \in Digits
  /\ \E k \in 0..(Len(t) - (i + n - 1)) :
       /\ \A j \in (i + n)..(i + n + k - 1) : t[j] \in Whitespace
       /\ MatchAt(k_mi, t, i + n + k) \/ MatchAt(k_miles, t, i + n + k)

\* miles: <<>> for None, else <<int(m.group(1))>>; leftmost match, greedy \d{3,6}
MilesSearch(t) ==
  LET hits == {i \in 1..Len(t) : \E n \in 3..6 : MilesAt(t, i, n)}
  IN  IF hits = {} THEN <<>>
      ELSE LET i == Min(hits)
               n == Max({m \in 3..6 : MilesAt(t, i, m)})
           IN  <<ToInt(SubSeq(t, i, i + n - 1))>>

(***************************************************************************)
(* Catalog endpoints (stubs).  A request or a returned object is a record; *)
(* a call made by answer() is logged in calls as [op, req].                *)
(***************************************************************************)
AlphaDealer ==
  [dealer_id |-> "D123", name |-> "Alpha Can-Am", address |-> "100 Beach Rd",
   city |-> "Miami", state |-> "FL", zip |-> "33139", phone |-> "305-555-0100",
   services |-> <<"sales", "service">>, website |-> "https://example.com"]

\* NearestDealersReq(zip, radius_mi=50, limit=10)
NearestDealersReq(zip, radius_mi, limit) ==
  [zip |-> zip, radius_mi |-> radius_mi, limit |-> limit]

\* a module-level list built on first use and handed out to every caller
nearest_dealers_cached(req) == IF lst = <<>> THEN <<AlphaDealer>> ELSE lst[1]

\* nearest_dealers(req): a new one-element list on every call
nearest_dealers(req) == <<AlphaDealer>>

\* spec_sheet(req)
spec_sheet(req) ==
  LET name == Lower(req.model)
  IN  IF In(k_spyder_f3, name) \/ SearchWord(k_f3, name)
        THEN [model |-> SpyderF3T, year |-> req.year, trim |-> "F3-T",
              engine |-> "Rotax 1330 ACE", transmission |-> "6-speed semi-auto",
              horsepower |-> "115", torque |-> "96", weight_lbs |-> "964",
              seat_height_in |-> "26.6", electronics |-> "VSS, ABS, TCS"]
      ELSE IF In(k_spyder_rt, name) \/ SearchWord(k_rt, name)
        THEN [model |-> SpyderRT, year |-> req.year, trim |-> "Limited",
              engine |-> "Rotax 1330 ACE", transmission |-> "6-speed semi-auto",
              horsepower |-> "115", torque |-> "96", weight_lbs |-> "1021",
              seat_height_in |-> "29.7", electronics |-> "VSS, ABS, TCS"]
      ELSE [model |-> Ryker, year |-> req.year, trim |-> "Sport",
            engine |-> "Rotax 900 ACE", transmission |-> "CVT",
            horsepower |-> "82", torque |-> "58", weight_lbs |-> "642",
            seat_height_in |-> "24.7", electronics |-> "VSS, ABS, TCS"]

\* fluids_torque(req)
fluids_torque(req) ==
  [capacities |-> <<"engine oil: 3.5 L">>,
   viscosity |-> "5W-40", type |-> "XPS Synthetic",
   torques |-> <<"Front axle: 105 Nm">>]

\* tire_fitment(req)
tire_fitment(req) ==
  IF req.axle = "front"
    THEN [axle |-> "front", size |-> "165/55 R15", pressure_psi |-> "18", brand |-> "Kenda XPS"]
    ELSE [axle |-> "rear", size |-> "225/50 R15", pressure_psi |-> "28", brand |-> "Kenda XPS"]

\* get_maintenance_schedule(req)
get_maintenance_schedule(req) ==
  <<[task |-> "Engine oil & filter", interval_mi |-> "6000", interval_time |-> "12 months"]>>

\* parts_lookup(req)
parts_lookup(req) ==
  <<[part_no |-> "705601234", name |-> "Front brake pad set", qty |-> 1]>>

\* bundle_accessories(req): budget_usd is None in every call of answer()
bundle_accessories(req) ==
  [use_case |-> req.use_case,
   bundles |-> <<[bundle_name |-> "Touring Comfort", total_msrp_usd |-> "1299",
                  items |-> <<"Heated Grips", "Top Case">>]>>]

\* recommend_model(req)
recommend_model(rp) ==
  IF rp.ride_type \in {"two-up", "long-distance"}
    THEN [model |-> SpyderRT, year |-> 2024, trim |-> "Limited",
          reasons |-> <<"Two-up touring", "Largest storage", "Wind protection">>]
    ELSE [model |-> Ryker, year |-> 2024, trim |-> "Sport",
          reasons |-> <<"Lightweight agility", "Accessible pricing">>]

(***************************************************************************)
(* The deterministic router, answer().  A rendered answer is the f-string  *)
(* that produced it (tmpl) with the interpolated values in order (args).   *)
(***************************************************************************)
SpecTerms(t) == AnyIn({k_spec, k_specs, k_specifications, k_spec_sheet}, t)
FluidTerms(t) == AnyIn({k_oil, k_fluid, k_fluids, k_torque, k_capacity}, t)
TireTerms(t) == In(k_tire, t)
MaintTerms(t) == AnyIn({k_service, k_maint, k_maintenance, k_interval}, t)
DealerTerms(t) == In(k_dealer, t) \/ In(k_dealership, t)
PartsTerms(t) == AnyIn({k_part, k_parts, k_diagram}, t)
AccessoryTerms(t) == In(k_accessor, t) \/ In(k_bundle, t)

\* the chain with the fluids test ahead of the spec test
Route_fluids_first(t, m) ==
  IF FluidTerms(t) /\ m # None THEN "fluids"
  ELSE IF SpecTerms(t) /\ m # None THEN "spec"
  ELSE IF TireTerms(t) /\ m # None THEN "tires"
  ELSE IF MaintTerms(t) /\ m # None THEN "maintenance"
  ELSE IF DealerTerms(t) THEN "dealer"
  ELSE IF PartsTerms(t) /\ m # None THEN "parts"
  ELSE IF AccessoryTerms(t) THEN "accessory"
  ELSE "recommend"

\* the chain with the dealer test requiring a zip match
Route_dealer_needs_zip(t, m) ==
  IF SpecTerms(t) /\ m # None THEN "spec"
  ELSE IF FluidTerms(t) /\ m # None THEN "fluids"
  ELSE IF TireTerms(t) /\ m # None THEN "tires"
  ELSE IF MaintTerms(t) /\ m # None THEN "maintenance"
  ELSE IF DealerTerms(t) /\ ZipSearch(t) # <<>> THEN "dealer"
  ELSE IF PartsTerms(t) /\ m # None THEN "parts"
  ELSE IF AccessoryTerms(t) THEN "accessory"
  ELSE "recommend"

\* the chain with the parts test not requiring a model
Route_parts_without_model(t, m) ==
  IF SpecTerms(t) /\ m # None THEN "spec"
  ELSE IF FluidTerms(t) /\ m # None THEN "fluids"
  ELSE IF TireTerms(t) /\ m # None THEN "tires"
  ELSE IF MaintTerms(t) /\ m # None THEN "maintenance"
  ELSE IF DealerTerms(t) THEN "dealer"
  ELSE IF PartsTerms(t) THEN "parts"
  ELSE IF AccessoryTerms(t) THEN "accessory"
  ELSE "recommend"

\* the if-chain of answer(): the branch that handles the lower-cased text t
\* with extracted model m
Route(t, m) ==
  IF SpecTerms(t) /\ m # None THEN "spec"
  ELSE IF FluidTerms(t) /\ m # None THEN "fluids"
  ELSE IF TireTerms(t) /\ m # None THEN "tires"
  ELSE IF MaintTerms(t) /\ m # None THEN "maintenance"
  ELSE IF DealerTerms(t) THEN "dealer"
  ELSE IF PartsTerms(t) /\ m # None THEN "parts"
  ELSE IF AccessoryTerms(t) THEN "accessory"
  ELSE "recommend"

Call(op, req) == [op |-> op, req |-> req]
QOut(tmpl, args) == [tmpl |-> tmpl, args |-> args]
\* what a branch did: the catalog calls it made, the answer it returned and
\* the dealer list it was handed (<<>> when it asked for none)
Done(cs, out, got) == [calls |-> cs, response |-> out, lst |-> got]

\* # Specs
AnswerSpec(t, m, y) ==
  LET req == [model |-> m, year |-> y]
      spec == spec_sheet(req)
  IN  Done(<<Call("spec_sheet", req)>>,
           QOut("spec", <<spec.model, spec.year, spec.trim, spec.engine,
                          spec.transmission, spec.horsepower, spec.torque,
                          spec.weight_lbs, spec.seat_height_in, spec.electronics>>),
           <<>>)

\* the fluids branch asking for the default year instead of the extracted one
AnswerFluids_default_year(t, m, y) ==
  LET sys == IF In(k_brake, t) THEN "brake"
             ELSE IF In(k_trans, t) \/ In(k_transmission, t) THEN "trans"
             ELSE "engine"
      req == [model |-> m, year |-> 2024, system |-> sys]
      ft == fluids_torque(req)
  IN  Done(<<Call("fluids_torque", req)>>,
           QOut("fluids", <<m, y, sys, ft.capacities, ft.viscosity, ft.type, ft.torques>>),
           <<>>)

\* # Oil / Fluids / Torque
AnswerFluids(t, m, y) ==
  LET sys == IF In(k_brake, t) THEN "brake"
             ELSE IF In(k_trans, t) \/ In(k_transmission, t) THEN "trans"
             ELSE "engine"
      req == [model |-> m, year |-> y, system |-> sys]
      ft == fluids_torque(req)
  IN  Done(<<Call("fluids_torque", req)>>,
           QOut("fluids", <<m, y, sys, ft.capacities, ft.viscosity, ft.type, ft.torques>>),
           <<>>)

\* # Tires
AnswerTires(t, m, y) ==
  LET axle == IF In(k_rear, t) THEN "rear" ELSE "front"
      req == [model |-> m, year |-> y, axle |-> axle]
      ts == tire_fitment(req)
  IN  Done(<<Call("tire_fitment", req)>>,
           QOut("tire", <<m, y, axle, ts.size, ts.pressure_psi, ts.brand>>),
           <<>>)

\* # Maintenance
AnswerMaintenance(t, m, y) ==
  LET req == [model |-> m, year |-> y, miles |-> MilesSearch(t)]
      items == get_maintenance_schedule(req)
  IN  Done(<<Call("get_maintenance_schedule", req)>>,
           QOut("maintenance", <<m, y, items>>),
           <<>>)

\* the request built with the defaults of NearestDealersReq
DealerSearchReq_defaults(zip) == NearestDealersReq(zip, 50, 10)

\* the request answer() sends to nearest_dealers
DealerSearchReq(zip) == NearestDealersReq(zip, 50, 5)

\* lst[:n]
Take(l, n) == SubSeq(l, 1, IF Len(l) < n THEN Len(l) ELSE n)

\* the dealer branch searching without testing the zip match
AnswerDealer_unchecked(t, m, y) ==
  LET zm == ZipSearch(t)
      req == DealerSearchReq(IF zm = <<>> THEN <<>> ELSE zm[1])
      l == nearest_dealers(req)
  IN  Done(<<Call("nearest_dealers", req)>>,
           QOut("closest_dealers",
                [i \in 1..Len(Take(l, 5)) |-> <<l[i].name, l[i].city, l[i].state>>]),
           <<l>>)

\* # Dealers
AnswerDealer(t, m, y) ==
  LET zm == ZipSearch(t)
  IN  IF zm = <<>>
        THEN Done(<<>>, QOut("zip_guidance", <<>>), <<>>)
        ELSE LET req == DealerSearchReq(zm[1])
                 l == nearest_dealers(req)
             IN  IF l = <<>>
                   THEN Done(<<Call("nearest_dealers", req)>>, QOut("no_dealers", <<>>), <<l>>)
                   ELSE Done(<<Call("nearest_dealers", req)>>,
                             QOut("closest_dealers",
                                  [i \in 1..Len(Take(l, 5)) |->
                                     <<l[i].name, l[i].city, l[i].state>>]),
                             <<l>>)

\* # Parts
AnswerParts(t, m, y) ==
  LET asm == IF In(k_brake, t) THEN "front_brake"
             ELSE IF In(k_drive, t) THEN "rear_drive"
             ELSE "handlebar"
      req == [model |-> m, year |-> y, assembly |-> asm]
      items == parts_lookup(req)
  IN  IF items = <<>>
        THEN Done(<<Call("parts_lookup", req)>>, QOut("no_parts", <<>>), <<>>)
        ELSE Done(<<Call("parts_lookup", req)>>,
                  QOut("parts", <<m, y, asm, items[1].name, items[1].part_no>>),
                  <<>>)

\* # Accessories / Bundles
AnswerAccessory(t, m, y) ==
  LET use == IF In(k_tour, t) THEN "touring"
             ELSE IF In(k_commute, t) THEN "commuter"
             ELSE IF In(k_performance, t) THEN "performance"
             ELSE IF In(k_two, t) THEN "two-up"
             ELSE IF In(k_winter, t) THEN "winter"
             ELSE "touring"
      req == [model |-> IF m # None THEN m ELSE Ryker, year |-> y, use_case |-> use]
      b == bundle_accessories(req)
  IN  IF b.bundles = <<>>
        THEN Done(<<Call("bundle_accessories", req)>>, QOut("no_bundle", <<>>), <<>>)
        ELSE Done(<<Call("bundle_accessories", req)>>,
                  QOut("bundle", <<b.bundles[1].bundle_name, b.bundles[1].total_msrp_usd,
                                   b.bundles[1].items>>),
                  <<>>)

\* # Default -> recommendation
AnswerRecommend(t, m, y) ==
  LET rp == [experience_level |-> IF In(k_new, t) THEN "new"
                                  ELSE IF In(k_expert, t) THEN "expert"
                                  ELSE "intermediate",
             ride_type |-> IF AnyIn({k_tour, k_two_up, k_highway, k_distance}, t)
                             THEN "long-distance"
                           ELSE IF AnyIn({k_city, k_commute}, t) THEN "urban"
                           ELSE "solo",
             comfort_priority |-> AnyIn({k_tour, k_two_up, k_comfort}, t)]
      rec == recommend_model(rp)
  IN  Done(<<Call("recommend_model", rp)>>,
           QOut("recommend", <<rec.model, rec.trim, rec.year, rec.reasons>>),
           <<>>)

(***************************************************************************)
(* Inputs.  A question is a list of distinct words joined by single spaces; *)
(* the word of one space gives leading, trailing and repeated spaces.      *)
(***************************************************************************)
RECURSIVE Join(_)
Join(ws) ==
  IF ws = <<>> THEN <<>>
  ELSE IF Len(ws) = 1 THEN ws[1]
  ELSE ws[1] \o <<" ">> \o Join(Tail(ws))

WordSeqs(V, n) ==
  UNION {{ws \in [1..k -> V] : \A i, j \in 1..k : i # j => ws[i] # ws[j]} : k \in 0..n}

w_space == <<" ">>

RouterVocab ==
  {w_space, k_spec, k_oil, k_tire, k_maint, k_dealer, k_part, k_bundle,
   w_Ryker, w_90210, w_33139, w_2023}

RouterWords == WordSeqs(RouterVocab, MaxWords)

ExtractVocab ==
  {w_space, w_Spyder, k_rt, w_F3, w_Ryker, k_canyon, k_part,
   w_2023, w_2021, w_20231, w_1999, w_v2023}

ExtractWords == WordSeqs(ExtractVocab, MaxTokens)

SessionQuestions ==
  {<<>>,
   Join(<<w_Ryker, k_spec>>), Join(<<w_Ryker, k_oil>>), Join(<<w_Ryker, k_tire>>),
   Join(<<w_Ryker, k_maint>>), Join(<<k_dealer>>), Join(<<k_dealer, w_90210>>),
   Join(<<w_Ryker, k_part>>), Join(<<k_bundle>>), Join(<<k_tour>>),
   Join(<<w_Spyder, w_F3, k_spec>>), Join(<<w_Spyder, k_rt, k_spec>>),
   Join(<<k_canyon, k_spec>>)}

Request(e, q) == [endpoint |-> e, question |-> q]

\* the handlers other than answer() ignore their request body
SessionRequests ==
  {Request("answer", q) : q \in SessionQuestions}
    \cup {Request(e, <<>>) : e \in {"nearest_dealers", "dealer_details", "dealer_hours"}}

(***************************************************************************)
(* The state machine: one request at a time, handler by handler.           *)
(***************************************************************************)
NoAnswer == QOut("none", <<>>)

\* the outcome of the current request, recorded the first time the request
\* is served by this process
Remember(st, out) ==
  IF \E i \in 1..Len(firstSeen) : firstSeen[i].req = Request(endpoint, question)
    THEN firstSeen
    ELSE Append(firstSeen, [req |-> Request(endpoint, question), status |-> st, response |-> out])

Blank ==
  /\ status = "none"
  /\ lo = <<>>
  /\ model = None
  /\ year = 0
  /\ intent = "none"
  /\ calls = <<>>
  /\ response = NoAnswer

Init ==
  /\ \E ws \in RouterWords : question = Join(ws)
  /\ endpoint = "answer"
  /\ pc = "idle"
  /\ Blank
  /\ lst = <<>>
  /\ firstSeen = <<>>
  /\ served = 1

\* raise HTTPException(400, "Empty question")
AnswerEmpty ==
  /\ pc = "idle"
  /\ endpoint = "answer"
  /\ Strip(question) = <<>>
  /\ pc' = "done"
  /\ status' = "http_400"
  /\ firstSeen' = Remember("http_400", NoAnswer)
  /\ UNCHANGED <<question, endpoint, lo, model, year, intent, calls, response, lst, served>>

\* return QOut(answer=...) from branch b
Return(b, t, m, y, d) ==
  /\ pc' = "done"
  /\ status' = "ok"
  /\ lo' = t
  /\ model' = m
  /\ year' = y
  /\ intent' = b
  /\ calls' = d.calls
  /\ response' = d.response
  /\ lst' = IF d.lst = <<>> THEN lst ELSE d.lst
  /\ firstSeen' = Remember("ok", d.response)
  /\ UNCHANGED <<question, endpoint, served>>

\* answer(q) for a non-empty question
Answer ==
  /\ pc = "idle"
  /\ endpoint = "answer"
  /\ \E text \in {Strip(question)} :
       /\ text # <<>>
       /\ \E t \in {Lower(text)} :
          \E m \in {_pick_model(t)} :
          \E y \in {_pick_year(t)} :
          \E b \in {Route(t, m)} :
            \/ b = "spec" /\ Return(b, t, m, y, AnswerSpec(t, m, y))
            \/ b = "fluids" /\ Return(b, t, m, y, AnswerFluids(t, m, y))
            \/ b = "tires" /\ Return(b, t, m, y, AnswerTires(t, m, y))
            \/ b = "maintenance" /\ Return(b, t, m, y, AnswerMaintenance(t, m, y))
            \/ b = "dealer" /\ Return(b, t, m, y, AnswerDealer(t, m, y))
            \/ b = "parts" /\ Return(b, t, m, y, AnswerParts(t, m, y))
            \/ b = "accessory" /\ Return(b, t, m, y, AnswerAccessory(t, m, y))
            \/ b = "recommend" /\ Return(b, t, m, y, AnswerRecommend(t, m, y))

Next == AnswerEmpty \/ Answer

Spec == Init /\ [][Next]_vars


(***************************************************************************)
(* SpecExtract: _pick_model and _pick_year applied to bounded texts.       *)
(***************************************************************************)
InitExtract ==
  /\ \E ws \in ExtractWords : question = Join(ws)
  /\ endpoint = "none"
  /\ pc = "idle"
  /\ Blank
  /\ lst = <<>>
  /\ firstSeen = <<>>
  /\ served = 0

PickModel ==
  /\ pc = "idle"
  /\ endpoint = "none"
  /\ pc' = "picked_model"
  /\ model' = _pick_model(question)
  /\ UNCHANGED <<question, endpoint, status, lo, year, intent, calls, response,
                 lst, firstSeen, served>>

PickYear ==
  /\ pc = "idle"
  /\ endpoint = "none"
  /\ pc' = "picked_year"
  /\ year' = _pick_year(question)
  /\ UNCHANGED <<question, endpoint, status, lo, model, intent, calls, response,
                 lst, firstSeen, served>>

NextExtract == PickModel \/ PickYear

SpecExtract == InitExtract /\ [][NextExtract]_vars

(***************************************************************************)
(* SpecSession: one process serving a sequence of requests to /answer,     *)
(* /nearest_dealers, /dealer_details and /dealer_hours.                    *)
(***************************************************************************)
InitSession ==
  /\ \E r \in SessionRequests : endpoint = r.endpoint /\ question = r.question
  /\ pc = "idle"
  /\ Blank
  /\ lst = <<>>
  /\ firstSeen = <<>>
  /\ served = 1

\* a handler other than answer() returns out, or raises (st = "http_500")
Reply(st, out, got) ==
  /\ pc' = "done"
  /\ status' = st
  /\ response' = out
  /\ lst' = got
  /\ firstSeen' = Remember(st, out)
  /\ UNCHANGED <<question, endpoint, lo, model, year, intent, calls, served>>

\* POST /nearest_dealers
NearestDealers ==
  /\ pc = "idle"
  /\ endpoint = "nearest_dealers"
  /\ \E l \in {nearest_dealers(NearestDealersReq(w_33139, 50, 10))} :
       Reply("ok", QOut("dealers", l), <<l>>)

\* POST /dealer_details: list.pop() removes and returns the last element of
\* the list nearest_dealers returned, and raises IndexError on an empty list
DealerDetails ==
  /\ pc = "idle"
  /\ endpoint = "dealer_details"
  /\ \E l \in {nearest_dealers(NearestDealersReq(w_33139, 50, 10))} :
       IF l = <<>>
         THEN Reply("http_500", NoAnswer, <<l>>)
         ELSE Reply("ok",
                    QOut("dealer_full",
                         <<l[Len(l)], "https://example.com/hours", "T. Rider",
                           "mgr@example.com", "Demo rides daily">>),
                    <<SubSeq(l, 1, Len(l) - 1)>>)

\* POST /dealer_hours
DealerHours ==
  /\ pc = "idle"
  /\ endpoint = "dealer_hours"
  /\ Reply("ok", QOut("hours", <<"America/New_York", "Mon-Fri 09:00-18:00",
                                  "Sat 10:00-16:00", "Sun closed">>), lst)

\* the next request arrives; the handler's locals are gone, the process stays
NewRequest ==
  /\ pc = "done"
  /\ served < MaxRequests
  /\ \E r \in SessionRequests : endpoint' = r.endpoint /\ question' = r.question
  /\ pc' = "idle"
  /\ status' = "none"
  /\ lo' = <<>>
  /\ model' = None
  /\ year' = 0
  /\ intent' = "none"
  /\ calls' = <<>>
  /\ response' = NoAnswer
  /\ served' = served + 1
  /\ UNCHANGED <<lst, firstSeen>>

NextSession ==
  AnswerEmpty \/ Answer \/ NearestDealers \/ DealerDetails \/ DealerHours \/ NewRequest

SpecSession == InitSession /\ [][NextSession]_vars

(***************************************************************************)
(* Vocabulary of the properties.  A token is a maximal run of word         *)
(* characters; the properties speak of tokens, the code of \b.             *)
(***************************************************************************)
RECURSIVE TokensFrom(_, _, _)
TokensFrom(t, i, cur) ==
  IF i > Len(t) THEN (IF cur = <<>> THEN <<>> ELSE <<cur>>)
  ELSE IF t[i] \in WordChars THEN TokensFrom(t, i + 1, Append(cur, t[i]))
  ELSE (IF cur = <<>> THEN <<>> ELSE <<cur>>) \o TokensFrom(t, i + 1, <<>>)

Tokens(t) == TokensFrom(t, 1, <<>>)

HasToken(w, t) == \E i \in 1..Len(Tokens(t)) : Tokens(t)[i] = w

IsZipToken(w) == Len(w) = 5 /\ \A i \in 1..5 : w[i] \in Digits
ZipTokens(t) == SelectSeq(Tokens(t), IsZipToken)
HasZipToken(t) == ZipTokens(t) # <<>>

IsYearToken(w) == Len(w) = 4 /\ w[1] = "2" /\ w[2] = "0" /\ w[3] \in Digits /\ w[4] \in Digits
YearTokens(t) == SelectSeq(Tokens(t), IsYearToken)
DigitValue(c) == CHOOSE d \in 0..9 : DigitSeq[d + 1] = c
YearValue(w) == 2000 + 10 * DigitValue(w[3]) + DigitValue(w[4])

AllWhitespace(s) == \A i \in 1..Len(s) : s[i] \in Whitespace

GroupOrder == <<"spec", "fluids", "tires", "maintenance", "dealer", "parts", "accessory">>

Answered == pc = "done" /\ endpoint = "answer" /\ status = "ok"

\* keyword condition of group g on the lower-cased question
KeywordCond(g) ==
  CASE g = "spec" -> SpecTerms(lo)
    [] g = "fluids" -> FluidTerms(lo)
    [] g = "tires" -> TireTerms(lo)
    [] g = "maintenance" -> MaintTerms(lo)
    [] g = "dealer" -> DealerTerms(lo)
    [] g = "parts" -> PartsTerms(lo)
    [] g = "accessory" -> AccessoryTerms(lo)

\* required-entity condition of group g: a zip token for dealer, a model otherwise
EntityCond(g) == IF g = "dealer" THEN HasZipToken(lo) ELSE model # None

\* positions in GroupOrder of the groups with both conditions true
Matching == {i \in 1..Len(GroupOrder) : KeywordCond(GroupOrder[i]) /\ EntityCond(GroupOrder[i])}

Position(g) == IF \E i \in 1..Len(GroupOrder) : GroupOrder[i] = g
                 THEN CHOOSE i \in 1..Len(GroupOrder) : GroupOrder[i] = g
                 ELSE Len(GroupOrder) + 1

\* one of spec, fluids, tires, maintenance has both conditions true
CapturedBeforeDealer == \E i \in Matching : i < Position("dealer")

DealerWithoutZip == DealerTerms(lo) /\ ~HasZipToken(lo)

IsZipGuidance == response.tmpl = "zip_guidance"

(***************************************************************************)
(* C1.                                                                     *)
(***************************************************************************)
\* C1 as stated: when more than one group has its keyword condition and its
\* required-entity condition true, the selected intent is the earliest of them.
C1_AsStated ==
  Answered =>
    LET M == Matching
    IN  Cardinality(M) > 1 => intent = GroupOrder[Min(M)]

\* C1 (amended): when more than one group has both conditions true, the
\* selected intent is the earliest of them, except that a question with a
\* dealer keyword and no zip token whose earliest such group is parts or
\* accessory is handled by the dealer group; and no group later than a group
\* with both conditions true is ever selected.
C1_EarliestGroupWins ==
  Answered =>
    LET M == Matching
    IN  Cardinality(M) > 1 =>
          /\ intent = IF DealerWithoutZip /\ Min(M) > Position("dealer")
                        THEN "dealer"
                        ELSE GroupOrder[Min(M)]
          /\ \A i \in M : Position(intent) <= i

\* a question with a spec keyword, a fluids keyword and a model was answered
C1_Witness ==
  /\ Answered
  /\ {1, 2} \subseteq Matching
  /\ intent = "spec"

(***************************************************************************)
(* C2.                                                                     *)
(***************************************************************************)
\* C2: a question with a dealer keyword and no 5-digit zip token that no
\* earlier group captures gets the ZIP guidance string, and no catalog or
\* dealer-search operation is invoked.
C2_DealerWithoutZipGuidance ==
  (Answered /\ DealerWithoutZip /\ ~CapturedBeforeDealer) =>
    /\ IsZipGuidance
    /\ calls = <<>>

\* a dealer question with a model and a year but no zip got the guidance
C2_Witness ==
  /\ Answered
  /\ DealerWithoutZip
  /\ model # None
  /\ YearTokens(lo) # <<>>
  /\ IsZipGuidance
  /\ calls = <<>>

(***************************************************************************)
(* C3.                                                                     *)
(***************************************************************************)
\* a later group (parts or accessory) has its keyword and a model
LaterGroupMatches == \E i \in Matching : i > Position("dealer")

\* C3 as stated: a dealer keyword without a zip token does not stop the
\* router; the later group whose keyword and model conditions hold is selected.
C3_AsStated ==
  (Answered /\ DealerWithoutZip /\ ~CapturedBeforeDealer /\ LaterGroupMatches) =>
    intent = GroupOrder[Min(Matching)]

\* C3 (amended): a question with a dealer keyword and no zip token, not
\* captured by an earlier group, stops at the dealer group even when parts or
\* accessory has its keyword and a model: neither parts_lookup nor
\* bundle_accessories is called.
C3_DealerStopsLaterGroups ==
  (Answered /\ DealerWithoutZip /\ ~CapturedBeforeDealer /\ LaterGroupMatches) =>
    /\ intent = "dealer"
    /\ \A i \in 1..Len(calls) : calls[i].op \notin {"parts_lookup", "bundle_accessories"}

\* a question with a model, a dealer keyword, a parts keyword and no zip
C3_Witness ==
  /\ Answered
  /\ DealerWithoutZip
  /\ PartsTerms(lo)
  /\ model # None
  /\ intent = "dealer"

(***************************************************************************)
(* C4.                                                                     *)
(***************************************************************************)
AccessoryWithoutModel == AccessoryTerms(lo) /\ model = None /\ ~DealerTerms(lo)

\* C4 as stated: every selected intent other than dealer has a model, and an
\* accessory keyword without a model falls through to recommend.
C4_AsStated ==
  Answered =>
    /\ intent \in {"spec", "fluids", "tires", "maintenance", "parts", "accessory"}
         => model # None
    /\ AccessoryWithoutModel => intent = "recommend"

\* C4 (amended): whenever spec, fluids, tires, maintenance or parts is
\* selected the extracted model is non-null; a question with an accessory
\* keyword, no model and no dealer keyword is classified as accessory, and
\* bundle_accessories is called with the model "Ryker".
C4_ModelRequired ==
  Answered =>
    /\ intent \in {"spec", "fluids", "tires", "maintenance", "parts"} => model # None
    /\ AccessoryWithoutModel =>
         /\ intent = "accessory"
         /\ Len(calls) = 1
         /\ calls[1].op = "bundle_accessories"
         /\ calls[1].req.model = Ryker

\* an accessory question without a model, and with a parts keyword, was answered
C4_Witness ==
  /\ Answered
  /\ AccessoryWithoutModel
  /\ PartsTerms(lo)
  /\ intent = "accessory"

(***************************************************************************)
(* C5.                                                                     *)
(***************************************************************************)
Intents == {"spec", "fluids", "tires", "maintenance", "dealer", "parts", "accessory", "recommend"}

\* the branch answer() takes on the question, were it handled now
BranchTaken ==
  LET t == Lower(Strip(question)) IN Route(t, _pick_model(t))

\* C5: a request to /answer is either rejected or routed to a branch, and ends in
\* exactly one outcome: the 400 error, before any catalog operation, if and
\* only if the question is all whitespace; otherwise one answer whose intent
\* is one of the seven groups or recommend.
C5_OneOutcome ==
  /\ (pc = "idle" /\ endpoint = "answer") =>
       Strip(question) = <<>> \/ BranchTaken \in Intents
  /\ (pc = "done" /\ endpoint = "answer") =>
       /\ status \in {"ok", "http_400"}
       /\ status = "http_400" <=> AllWhitespace(question)
       /\ status = "http_400" =>
            calls = <<>> /\ response = NoAnswer /\ intent = "none"
       /\ status = "ok" => intent \in Intents /\ response.tmpl # "none"

\* a question of one space was rejected
C5_Witness ==
  /\ pc = "done"
  /\ status = "http_400"
  /\ question = <<" ">>

(***************************************************************************)
(* C8.                                                                     *)
(***************************************************************************)
OperationOf(i) ==
  CASE i = "spec" -> "spec_sheet"
    [] i = "fluids" -> "fluids_torque"
    [] i = "tires" -> "tire_fitment"
    [] i = "maintenance" -> "get_maintenance_schedule"
    [] i = "dealer" -> "nearest_dealers"
    [] i = "parts" -> "parts_lookup"
    [] i = "accessory" -> "bundle_accessories"
    [] i = "recommend" -> "recommend_model"

TakesModelAndYear ==
  {"spec_sheet", "fluids_torque", "tire_fitment", "get_maintenance_schedule",
   "parts_lookup", "bundle_accessories"}

\* C8 as stated: every answer but the ZIP guidance comes from exactly one
\* catalog operation, that of the selected intent, called with the extracted
\* model and year (for the operations that take a model and a year).
C8_AsStated ==
  (Answered /\ ~IsZipGuidance) =>
    /\ Len(calls) = 1
    /\ calls[1].op = OperationOf(intent)
    /\ calls[1].op \in TakesModelAndYear =>
         calls[1].req.model = model /\ calls[1].req.year = year

\* C8 (amended): every answer but the ZIP guidance comes from exactly one
\* catalog operation, that of the selected intent; spec_sheet, fluids_torque,
\* tire_fitment, get_maintenance_schedule and parts_lookup are called with
\* the extracted model and year, bundle_accessories with the extracted year
\* and the extracted model or "Ryker" when there is none.
C8_OneCatalogCall ==
  (Answered /\ ~IsZipGuidance) =>
    /\ Len(calls) = 1
    /\ calls[1].op = OperationOf(intent)
    /\ calls[1].op \in TakesModelAndYear =>
         /\ calls[1].req.year = year
         /\ calls[1].req.model = IF calls[1].op = "bundle_accessories" /\ model = None
                                   THEN Ryker
                                   ELSE model

\* a fluids question with a model and the year 2023 was answered
C8_Witness ==
  /\ Answered
  /\ intent = "fluids"
  /\ year = 2023
  /\ Len(calls) = 1

(***************************************************************************)
(* C9.                                                                     *)
(***************************************************************************)
\* C9: a dealer question with a zip token calls nearest_dealers exactly once,
\* with the first 5-digit token, radius 50 and limit 5, and the answer lists
\* at most 5 dealers.
C9_DealerSearch ==
  (Answered /\ intent = "dealer" /\ HasZipToken(lo)) =>
    /\ Len(calls) = 1
    /\ calls[1].op = "nearest_dealers"
    /\ calls[1].req.zip = ZipTokens(lo)[1]
    /\ calls[1].req.radius_mi = 50
    /\ calls[1].req.limit = 5
    /\ response.tmpl \in {"closest_dealers", "no_dealers"}
    /\ Len(response.args) <= 5

\* a dealer question with two different zips was answered with the first
C9_Witness ==
  /\ Answered
  /\ intent = "dealer"
  /\ Len(ZipTokens(lo)) = 2
  /\ ZipTokens(lo)[1] # ZipTokens(lo)[2]
  /\ Len(calls) = 1
  /\ calls[1].req.zip = w_33139

(***************************************************************************)
(* C6 (SpecExtract).                                                       *)
(***************************************************************************)
PickedModel == pc = "picked_model"
HasPhrase(p) == In(p, Lower(question))
HasWord(w) == HasToken(w, Lower(question))
MentionsF3 == HasPhrase(k_spyder_f3) \/ HasWord(k_f3)
MentionsRT == HasPhrase(k_spyder_rt) \/ HasWord(k_rt)

C7_FirstYearToken ==
  pc = "picked_year" =>
    year = IF YearTokens(question) = <<>> THEN 2024 ELSE YearValue(YearTokens(question)[1])

\* a text of a 5-digit number beginning with 20 and a 4-digit number not
\* beginning with 20 yields the default
C7_Witness ==
  /\ pc = "picked_year"
  /\ HasToken(w_20231, question)
  /\ HasToken(w_1999, question)
  /\ YearTokens(question) = <<>>
  /\ year = 2024

(***************************************************************************)
(* C10 (SpecSession).                                                      *)
(***************************************************************************)
\* C10: whatever requests the process served before, a request gets the
\* outcome it got the first time, and nearest_dealers returns its one dealer.
C10_Stateless ==
  pc = "done" =>
    /\ \A i \in 1..Len(firstSeen) :
         firstSeen[i].req = Request(endpoint, question) =>
           firstSeen[i].status = status /\ firstSeen[i].response = response
    /\ endpoint = "nearest_dealers" => status = "ok" /\ Len(response.args) = 1
    /\ endpoint = "dealer_details" => status = "ok"

\* nearest_dealers was served a second time, after a dealer_details
C10_Witness ==
  /\ pc = "done"
  /\ endpoint = "nearest_dealers"
  /\ served = 3
  /\ Len(firstSeen) = 2
  /\ \E i \in 1..Len(firstSeen) : firstSeen[i].req.endpoint = "dealer_details"

(***************************************************************************)
(* C11 (SpecSession).                                                      *)
(***************************************************************************)
\* C11: for every question classified as spec, the model named in the
\* rendered answer, that of the SpecSheet spec_sheet returned, is the model
\* _pick_model extracted from the question.
C11_AnswerNamesExtractedModel ==
  (Answered /\ intent = "spec") =>
    /\ Len(calls) = 1
    /\ calls[1].req.model = model
    /\ response.args[1] = model

====
